---- MODULE Spec2Model ----
(***************************************************************************)
(* A model of barrier-server.js: the HTTP barrier server (request handler, *)
(* check-in store, keep-alive interval) and the result its bash client     *)
(* "barrier" derives from a response.                                      *)
(*                                                                         *)
(* JavaScript values are modelled as follows.  The value of postData['id'] *)
(* is a record [t |-> "undefined"], [t |-> "string", v |-> s] or           *)
(* [t |-> "array", v |-> <<s1, ...>>].  A plain object ({}) is a function  *)
(* from its own keys; reading a key goes through GetProp, which falls back *)
(* to Object.prototype as the engine does.  A response object is          *)
(* identified by the number of the request it answers.                     *)
(***************************************************************************)
EXTENDS Integers, Sequences, FiniteSets, TLC

\* ---------------------------------------------------------------- bounds
MaxRequests == 2
MaxTicks == 1
MaxInFlight == 2

\* ------------------------------------------------------------ JS values
JsUndefined == [t |-> "undefined"]

JsString(s) == [t |-> "string", v |-> s]

JsArray(a) == [t |-> "array", v |-> a]

\* a === b, for a value a of the kinds above and a string b
StrictEqString(a, s) == a.t = "string" /\ a.v = s

RECURSIVE Join(_)
\* Array.prototype.join(',') as used by the implicit string conversion
Join(a) ==
    IF a = <<>> THEN ""
    ELSE IF Len(a) = 1 THEN a[1]
    ELSE a[1] \o "," \o Join(Tail(a))

\* the string conversion applied by  '...' + id + '...'
StringOf(a) ==
    IF a.t = "undefined" THEN "undefined"
    ELSE IF a.t = "string" THEN a.v
    ELSE Join(a.v)

\* Names every object created by {} inherits from Object.prototype
ObjectPrototypeKeys ==
    {"constructor", "toString", "toLocaleString", "valueOf", "hasOwnProperty",
     "isPrototypeOf", "propertyIsEnumerable", "__proto__"}

\* results of reading a property of a checkins object: a response (a
\* positive number), an inherited Object.prototype member, or undefined
Inherited == -1
NoValue == 0

EmptyObject == [k \in {} |-> NoValue]

\* checkins[key]
GetProp(obj, key) ==
    IF key \in DOMAIN obj THEN obj[key]
    ELSE IF key \in ObjectPrototypeKeys THEN Inherited
    ELSE NoValue

\* checkins[key] = value
SetProp(obj, key, value) ==
    [k \in DOMAIN obj \cup {key} |-> IF k = key THEN value ELSE obj[k]]

\* indexOf that reports every string as found at index 0
indexOf_AnyString(list, a) == IF a.t = "string" THEN 0 ELSE -1

\* Array.prototype.indexOf on a list of strings: 0-based, -1 when absent
indexOf(list, a) ==
    IF \E i \in 1..Len(list) : StrictEqString(a, list[i])
    THEN (CHOOSE i \in 1..Len(list) :
              /\ StrictEqString(a, list[i])
              /\ \A j \in 1..(i - 1) : ~StrictEqString(a, list[j])) - 1
    ELSE -1

\* --------------------------------------------------------- request bodies
\* A body is a list of chunks; a chunk is a list of <<key, value>> fields of
\* the urlencoded form.
RECURSIVE ValuesOf(_, _)
ValuesOf(fields, key) ==
    IF fields = <<>> THEN <<>>
    ELSE IF Head(fields)[1] = key THEN <<Head(fields)[2]>> \o ValuesOf(Tail(fields), key)
    ELSE ValuesOf(Tail(fields), key)

\* querystring.parse(reqBody)[key]: absent -> undefined, one value -> the
\* string, several values -> the array of them
ParsedField(reqBody, key) ==
    LET vs == ValuesOf(reqBody, key) IN
    IF vs = <<>> THEN JsUndefined
    ELSE IF Len(vs) = 1 THEN JsString(vs[1])
    ELSE JsArray(vs)

Field(id) == <<"id", id>>

\* the requests the environment may send
RequestShapes ==
    {[method |-> "POST", url |-> "/", chunks |-> << <<Field(i)>> >>] :
        i \in {"h1", "h2", "h3", "constructor"}}
    \cup
    {[method |-> "POST", url |-> "/b", chunks |-> << <<Field(i)>> >>] :
        i \in {"h1", "h2", "constructor"}}
    \cup
    {[method |-> "POST", url |-> "/", chunks |-> << >>],
     [method |-> "POST", url |-> "/b", chunks |-> << <<Field("h1")>>, <<Field("h2")>> >>],
     [method |-> "POST", url |-> "/x", chunks |-> << <<Field("h1")>> >>],
     [method |-> "GET", url |-> "/", chunks |-> << <<Field("h1")>> >>],
     [method |-> "GET", url |-> "/x", chunks |-> << >>]}

\* ------------------------------------------------------ configurations
\* var config = { expected: { '/': [] }, hostname: null,
\*                keepAliveIntervalMs: 60 * 1000, port: 1337 }
DefaultConfig ==
    [expected |-> ("/" :> <<>>), hostname |-> "null",
     keepAliveIntervalMs |-> 60 * 1000, port |-> 1337]

\* the parsed contents barrier-server.conf may have
UserConfigs ==
    {[expected |-> ("/" :> <<"h1", "h2">> @@ "/b" :> <<"h1">>)],
     [expected |-> ("/" :> <<"h1", "constructor">> @@ "/b" :> <<"h2", "h1">>),
      keepAliveIntervalMs |-> 5000],
     [expected |-> ("/" :> <<"constructor">> @@ "/b" :> <<"h2", "h1", "h3">>),
      port |-> 8080]}

\* Object.keys(userConfig).forEach(function(k) { config[k] = userConfig[k]; })
MergeConfig(defaults, userConfig) == userConfig @@ defaults

\* config once the config file was read, or could not be read
Configs ==
    {DefaultConfig} \cup {MergeConfig(DefaultConfig, u) : u \in UserConfigs}

\* config[key], undefined (NoValue) for a key config does not have
ConfigValue(cfg, key) ==
    IF key \in DOMAIN cfg THEN cfg[key] ELSE NoValue

\* the delay a timer runs on when setInterval is handed delay: a delay that
\* is no number >= 1 (undefined included) is replaced by 1 ms
TimerDelay(delay) == IF delay >= 1 THEN delay ELSE 1

\* the second argument of setInterval: config.keepaliveIntervalMs
KeepAliveDelay(cfg) == TimerDelay(ConfigValue(cfg, "keepaliveIntervalMs"))

VARIABLES config, checkinStore, reqs, res, ticks, last

vars == <<config, checkinStore, reqs, res, ticks, last>>

\* a fresh http.ServerResponse
NewResponse ==
    [statusCode |-> 200, headersSent |-> FALSE, written |-> <<>>,
     finished |-> FALSE, endCalls |-> 0, lateWrite |-> FALSE,
     connected |-> TRUE]

Init ==
    /\ config \in Configs
    /\ checkinStore = EmptyObject
    /\ reqs = <<>>
    /\ res = <<>>
    /\ ticks = 0
    /\ last = [op |-> "start", h |-> 0]

InFlight == {h \in 1..Len(reqs) : ~reqs[h].ended}

\* http.createServer callback: a request arrives, its body is still to come
Connection(shape) ==
    /\ Len(reqs) < MaxRequests
    /\ Cardinality(InFlight) < MaxInFlight
    /\ reqs' = Append(reqs, [method |-> shape.method, url |-> shape.url,
                             pending |-> shape.chunks, reqBody |-> <<>>,
                             ended |-> FALSE, outcome |-> "Pending"])
    /\ res' = Append(res, NewResponse)
    /\ last' = [op |-> "connection", h |-> Len(reqs) + 1]
    /\ UNCHANGED <<config, checkinStore, ticks>>

\* req.on('data'): reqBody += chunk.toString()
OnData(h) ==
    /\ h \in InFlight
    /\ reqs[h].pending # <<>>
    /\ reqs' = [reqs EXCEPT ![h].reqBody = @ \o Head(reqs[h].pending),
                            ![h].pending = Tail(@)]
    /\ last' = [op |-> "data", h |-> h]
    /\ UNCHANGED <<config, checkinStore, res, ticks>>

\* res.write(data) on response r
ResWrite(r, data) ==
    IF r.finished THEN [r EXCEPT !.lateWrite = TRUE]
    ELSE [r EXCEPT !.headersSent = TRUE, !.written = Append(@, data)]

\* res.end(data) on response r; body is <<>> for end(undefined)
ResEnd(r, body) ==
    IF r.finished THEN [r EXCEPT !.endCalls = @ + 1, !.lateWrite = TRUE]
    ELSE [r EXCEPT !.headersSent = TRUE, !.written = @ \o body,
                   !.finished = TRUE, !.endCalls = @ + 1]

RECURSIVE ResEndTimes(_, _, _)
ResEndTimes(r, body, n) ==
    IF n = 0 THEN r ELSE ResEndTimes(ResEnd(r, body), body, n - 1)

\* new HttpError(statusCode, message); message is <<>> when not given
HttpError(statusCode, message) ==
    [statusCode |-> IF statusCode = 0 THEN 400 ELSE statusCode,
     message |-> message]

UnrecognizedMessage(id) == "Unrecognized id: \"" \o StringOf(id) \o "\"\r\n"

\* the duplicate message a copy of the unrecognized one
DuplicateMessage_Copied(id) == "Unrecognized id: \"" \o StringOf(id) \o "\"\r\n"

DuplicateMessage(id) == "Duplicate id: \"" \o StringOf(id) \o "\"\r\n"

GoPayload == "GO\r\n"

\* the keep-alive payload taken to be the release payload
HoldPayload_AsGo == "GO\r\n"

HoldPayload == "HOLD\r\n"

\* one checkins object shared by all urls
CheckinsOf_Shared(store, url) ==
    IF DOMAIN store = {} THEN EmptyObject
    ELSE store[CHOOSE u \in DOMAIN store : TRUE]

\* checkinStore[url] || {}
CheckinsOf(store, url) ==
    IF url \in DOMAIN store THEN store[url] ELSE EmptyObject

\* the completeness test with its negation lost
allCheckedIn_Inverted(expectedIds, checkins) ==
    \E i \in 1..Len(expectedIds) : GetProp(checkins, expectedIds[i]) = NoValue

\* !expectedIds.some(function(id) { return checkins[id] === undefined; })
allCheckedIn(expectedIds, checkins) ==
    ~\E i \in 1..Len(expectedIds) : GetProp(checkins, expectedIds[i]) = NoValue

\* the validation chain without the duplicate check
Validate_NoDuplicateCheck(rq, store) ==
    LET id == ParsedField(rq.reqBody, "id") IN
    IF rq.method # "POST"
    THEN [kind |-> "MethodNotAllowed", error |-> [statusCode |-> 405, message |-> <<>>]]
    ELSE IF rq.url \notin DOMAIN config.expected
    THEN [kind |-> "UnknownGroup", error |-> [statusCode |-> 404, message |-> <<>>]]
    ELSE IF \A i \in 1..Len(config.expected[rq.url]) :
                ~(id.t = "string" /\ id.v = config.expected[rq.url][i])
    THEN [kind |-> "UnrecognizedParticipant",
          error |-> [statusCode |-> 400,
                     message |-> <<"Unrecognized id: \"" \o StringOf(id) \o "\"\r\n">>]]
    ELSE [kind |-> "Accepted", error |-> [statusCode |-> 200, message |-> <<>>]]

\* the group looked up before the method is checked
Validate_GroupFirst(rq, store) ==
    LET id == ParsedField(rq.reqBody, "id") IN
    IF rq.url \notin DOMAIN config.expected
    THEN [kind |-> "UnknownGroup", error |-> HttpError(404, <<>>)]
    ELSE IF rq.method # "POST"
    THEN [kind |-> "MethodNotAllowed", error |-> HttpError(405, <<>>)]
    ELSE IF indexOf(config.expected[rq.url], id) = -1
    THEN [kind |-> "UnrecognizedParticipant",
          error |-> HttpError(400, <<UnrecognizedMessage(id)>>)]
    ELSE IF GetProp(CheckinsOf(store, rq.url), id.v) # NoValue
    THEN [kind |-> "DuplicateArrival",
          error |-> HttpError(400, <<DuplicateMessage(id)>>)]
    ELSE [kind |-> "Accepted", error |-> HttpError(200, <<>>)]

\* the validation chain of the handler: which throw statement request rq
\* reaches against store ("Accepted" when none), and the HttpError thrown
Validate(rq, store) ==
    LET id == ParsedField(rq.reqBody, "id") IN
    IF rq.method # "POST"
    THEN [kind |-> "MethodNotAllowed", error |-> HttpError(405, <<>>)]
    ELSE IF rq.url \notin DOMAIN config.expected
    THEN [kind |-> "UnknownGroup", error |-> HttpError(404, <<>>)]
    ELSE IF indexOf(config.expected[rq.url], id) = -1
    THEN [kind |-> "UnrecognizedParticipant",
          error |-> HttpError(400, <<UnrecognizedMessage(id)>>)]
    ELSE IF GetProp(CheckinsOf(store, rq.url), id.v) # NoValue
    THEN [kind |-> "DuplicateArrival",
          error |-> HttpError(400, <<DuplicateMessage(id)>>)]
    ELSE [kind |-> "Accepted", error |-> HttpError(200, <<>>)]

\* the store entry created before any validation
StoreTouched_Early(rq, store) ==
    [u \in DOMAIN store \cup {rq.url} |->
        IF u \in DOMAIN store THEN store[u] ELSE EmptyObject]

\* the store once the handler has passed  checkinStore[req.url] = ... || {}
StoreTouched(rq, store) ==
    IF /\ rq.method = "POST"
       /\ rq.url \in DOMAIN config.expected
       /\ indexOf(config.expected[rq.url], ParsedField(rq.reqBody, "id")) # -1
    THEN SetProp(store, rq.url, CheckinsOf(store, rq.url))
    ELSE store

\* the reset forgotten after a release
ResetCheckins_Keep(store, url) == store

\* checkins = checkinStore[req.url] = {}
ResetCheckins(store, url) == SetProp(store, url, EmptyObject)

\* the release loop given up when an entry's connection is gone
ReleaseAll_StopAtDead(rs, checkins) ==
    IF \E key \in DOMAIN checkins : ~rs[checkins[key]].connected
    THEN rs
    ELSE [k \in DOMAIN rs |->
             IF \E key \in DOMAIN checkins : checkins[key] = k
             THEN ResEnd(rs[k], <<GoPayload>>)
             ELSE rs[k]]

\* the release loop running over every response instead of the arrived map
ReleaseAll_Everyone(rs, checkins) ==
    [k \in DOMAIN rs |-> ResEnd(rs[k], <<GoPayload>>)]

\* Object.keys(checkins).forEach(function(id) { checkins[id].end('GO\r\n'); })
\* on the responses rs.  end() on a response whose connection is gone does
\* not throw, so the loop reaches every key.
ReleaseAll(rs, checkins) ==
    [k \in 1..Len(rs) |->
        ResEndTimes(rs[k], <<GoPayload>>,
            Cardinality({key \in DOMAIN checkins : checkins[key] = k}))]

\* req.on('end'): the whole handler, one event-loop turn
OnEnd(h) ==
    /\ h \in InFlight
    /\ reqs[h].pending = <<>>
    /\ LET rq == reqs[h]
           id == ParsedField(rq.reqBody, "id")
           checked == Validate(rq, checkinStore)
           ex == checked.error
           store1 == StoreTouched(rq, checkinStore)
       IN
       IF checked.kind # "Accepted"
       THEN \* catch (ex): res.statusCode = ex.statusCode; res.end(ex.message)
            /\ res' = [res EXCEPT ![h] =
                          ResEnd([@ EXCEPT !.statusCode = ex.statusCode], ex.message)]
            /\ checkinStore' = store1
       ELSE LET expectedIds == config.expected[rq.url]
                \* res.writeHead(200, ...)
                res1 == [res EXCEPT ![h].statusCode = 200, ![h].headersSent = TRUE]
                \* checkins[id] = res
                checkins == SetProp(store1[rq.url], id.v, h)
            IN
            IF allCheckedIn(expectedIds, checkins)
            THEN /\ res' = ReleaseAll(res1, checkins)
                 /\ checkinStore' = ResetCheckins(store1, rq.url)
            ELSE /\ res' = res1
                 /\ checkinStore' = SetProp(store1, rq.url, checkins)
    /\ reqs' = [reqs EXCEPT ![h].ended = TRUE,
                            ![h].outcome = Validate(reqs[h], checkinStore).kind]
    /\ last' = [op |-> "end", h |-> h]
    /\ UNCHANGED <<config, ticks>>

\* the keep-alive loop given up when a stored response's connection is gone
KeepAlive_StopAtDead ==
    /\ ticks < MaxTicks
    /\ ticks' = ticks + 1
    /\ res' = [k \in 1..Len(res) |->
                  IF /\ \E url \in DOMAIN checkinStore :
                           \E id \in DOMAIN checkinStore[url] : checkinStore[url][id] = k
                     /\ \A url \in DOMAIN checkinStore :
                           \A id \in DOMAIN checkinStore[url] :
                               res[checkinStore[url][id]].connected
                  THEN ResWrite(res[k], HoldPayload)
                  ELSE res[k]]
    /\ last' = [op |-> "tick", h |-> 0]
    /\ UNCHANGED <<config, checkinStore, reqs>>

\* the setInterval callback: write 'HOLD' to every stored response
KeepAlive ==
    /\ ticks < MaxTicks
    /\ ticks' = ticks + 1
    /\ res' = [k \in 1..Len(res) |->
                  IF \E url \in DOMAIN checkinStore :
                        \E id \in DOMAIN checkinStore[url] : checkinStore[url][id] = k
                  THEN ResWrite(res[k], HoldPayload)
                  ELSE res[k]]
    /\ last' = [op |-> "tick", h |-> 0]
    /\ UNCHANGED <<config, checkinStore, reqs>>

\* the connection of a held response goes away; the server registers no
\* handler for it, so the response stays in checkinStore, and later write()
\* and end() calls on it are still made (they reach nobody)
Disconnect(h) ==
    /\ h \in 1..Len(res)
    /\ reqs[h].ended
    /\ ~res[h].finished
    /\ res[h].connected
    /\ res' = [res EXCEPT ![h].connected = FALSE]
    /\ last' = [op |-> "disconnect", h |-> h]
    /\ UNCHANGED <<config, checkinStore, reqs, ticks>>

Next ==
    \/ \E shape \in RequestShapes : Connection(shape)
    \/ \E h \in 1..MaxRequests : OnData(h)
    \/ \E h \in 1..MaxRequests : OnEnd(h)
    \/ KeepAlive
    \/ \E h \in 1..MaxRequests : Disconnect(h)

Spec == Init /\ [][Next]_vars

\* ------------------------------------------------------------ the client
\* What the bash client "barrier" reports for response r: it runs curl with
\* --fail --silent --show-error --output /dev/null when curl exists, wget
\* with --quiet --output-document=/dev/null otherwise.  The body never
\* reaches the caller; curl exits 22 on a status >= 400 and names the status
\* on stderr, wget exits 8 and prints nothing.
ClientResult(tool, r) ==
    IF tool = "curl"
    THEN IF r.statusCode >= 400
         THEN [exit |-> 22, stdout |-> <<>>, stderr |-> <<r.statusCode>>]
         ELSE [exit |-> 0, stdout |-> <<>>, stderr |-> <<>>]
    ELSE IF r.statusCode >= 400
         THEN [exit |-> 8, stdout |-> <<>>, stderr |-> <<>>]
         ELSE [exit |-> 0, stdout |-> <<>>, stderr |-> <<>>]

ClientTools == {"curl", "wget"}

\* ------------------------------------------------------------------------
\* Vocabulary of the properties
\* ------------------------------------------------------------------------
Responses == 1..Len(res)

\* the step is the 'end' handler of request h
EndStep(h) == h \in InFlight /\ reqs'[h].ended

\* the id request h carries, once its body is complete
IdOf(h) == ParsedField(reqs[h].reqBody, "id")

\* request h is a POST to a configured group
IsCheckin(h) == reqs[h].method = "POST" /\ reqs[h].url \in DOMAIN config.expected

ExpectedSet(url) == {config.expected[url][i] : i \in 1..Len(config.expected[url])}

\* the ids that have an entry of their own in the group's arrived map
ArrivedKeys(url) == DOMAIN CheckinsOf(checkinStore, url)

ArrivedKeysAfter(url) == DOMAIN CheckinsOf(checkinStore', url)

Missing(url) == ExpectedSet(url) \ ArrivedKeys(url)

\* request h is a check-in with an expected id
IsExpectedCheckin(h) ==
    /\ IsCheckin(h)
    /\ IdOf(h).t = "string"
    /\ IdOf(h).v \in ExpectedSet(reqs[h].url)

GoCount(r) == Cardinality({i \in 1..Len(r.written) : r.written[i] = GoPayload})

HoldCount(r) == Cardinality({i \in 1..Len(r.written) : r.written[i] = HoldPayload})

\* response h is accepted (200 sent) and still open
Held(h) == res[h].headersSent /\ res[h].statusCode = 200 /\ ~res[h].finished

\* response h is completed in this step
CompletedNow(h) == ~res[h].finished /\ res'[h].finished

\* response h receives the release payload in this step
ReleasedNow(h) == GoCount(res'[h]) > GoCount(res[h])

\* the ids whose check-in to url is accepted in the round that is current
\* during this step: held before it, or accepted by it
RoundIdsNow(url) ==
    {IdOf(k).v : k \in {k \in Responses :
        /\ reqs[k].url = url
        /\ reqs'[k].ended
        /\ ~res[k].finished
        /\ res'[k].headersSent
        /\ res'[k].statusCode = 200}}

\* C1: a held response is completed with 'GO' only in a step in which every
\* id of its group's expected list has an accepted check-in in the current
\* round, and a keep-alive tick completes no response.
C1_BarrierSafety ==
    [][/\ \A h \in Responses :
            (ReleasedNow(h) \/ (Held(h) /\ CompletedNow(h)))
                => ExpectedSet(reqs[h].url) \subseteq RoundIdsNow(reqs[h].url)
       /\ (ticks' # ticks => \A h \in Responses : res'[h].finished = res[h].finished)
      ]_vars

\* the responses stored in the group's arrived map
ArrivedHandles(url) ==
    {CheckinsOf(checkinStore, url)[k] : k \in ArrivedKeys(url)}

\* response k is accepted and still open after this step
HeldAfter(k) ==
    res'[k].headersSent /\ res'[k].statusCode = 200 /\ ~res'[k].finished

\* C2: when the last missing expected id of a group checks in, every
\* response held for the group, the arriving one included, gets exactly one
\* 'GO' in that step, and the group's arrived map is empty after it.
C2_LastArrivalReleasesAll ==
    [][\A h \in Responses :
          (/\ EndStep(h)
           /\ IsExpectedCheckin(h)
           /\ Missing(reqs[h].url) = {IdOf(h).v})
          => /\ \A k \in ArrivedHandles(reqs[h].url) \cup {h} :
                    /\ GoCount(res'[k]) = GoCount(res[k]) + 1
                    /\ res'[k].endCalls = 1
                    /\ res'[k].finished
             /\ ArrivedKeysAfter(reqs[h].url) = {}
      ]_vars

\* C3: a POST check-in to a configured group with an expected id that has
\* no entry in arrived is accepted: no error, the response is stored as
\* arrived[id] and, unless it completes the round, stays open.
C3_ExpectedCheckinAccepted ==
    [][\A h \in Responses :
          (/\ EndStep(h)
           /\ IsExpectedCheckin(h)
           /\ IdOf(h).v \notin ArrivedKeys(reqs[h].url))
          => /\ res'[h].statusCode = 200
             /\ res'[h].headersSent
             /\ res'[h].written \in {<<>>, <<GoPayload>>}
             /\ (Missing(reqs[h].url) \ {IdOf(h).v} # {}
                    => /\ HeldAfter(h)
                       /\ res'[h].written = <<>>
                       /\ IdOf(h).v \in ArrivedKeysAfter(reqs[h].url)
                       /\ checkinStore'[reqs[h].url][IdOf(h).v] = h)
      ]_vars

\* C4: a check-in to a configured group with an id outside the group's
\* expected list (a missing id included) is answered 400 'Unrecognized id'
\* and changes no arrived map and no other response.
C4_UnrecognizedRejected ==
    [][\A h \in Responses :
          (/\ EndStep(h)
           /\ IsCheckin(h)
           /\ ~IsExpectedCheckin(h))
          => /\ res'[h].statusCode = 400
             /\ res'[h].finished
             /\ res'[h].endCalls = 1
             /\ res'[h].written =
                    <<"Unrecognized id: \"" \o StringOf(IdOf(h)) \o "\"\r\n">>
             /\ checkinStore' = checkinStore
             /\ \A k \in Responses \ {h} : res'[k] = res[k]
      ]_vars

\* C4 witness: an unrecognised id was just rejected while a response is held
C4_Witness ==
    /\ last.op = "end"
    /\ reqs[last.h].outcome = "UnrecognizedParticipant"
    /\ res[last.h].statusCode = 400
    /\ \E k \in Responses : Held(k) /\ k \in ArrivedHandles(reqs[k].url)

\* C5: a second check-in with an id that already has an entry in arrived is
\* answered 400 'Duplicate id', leaves arrived unchanged and the first
\* response held and untouched; one response is held for that id.
C5_DuplicateRejected ==
    [][\A h \in Responses :
          (/\ EndStep(h)
           /\ IsExpectedCheckin(h)
           /\ IdOf(h).v \in ArrivedKeys(reqs[h].url))
          => LET url == reqs[h].url
                 first == checkinStore[url][IdOf(h).v]
             IN /\ res'[h].statusCode = 400
                /\ res'[h].finished
                /\ res'[h].endCalls = 1
                /\ res'[h].written =
                       <<"Duplicate id: \"" \o IdOf(h).v \o "\"\r\n">>
                /\ checkinStore' = checkinStore
                /\ first # h
                /\ res'[first] = res[first]
                /\ HeldAfter(first)
                /\ {k \in Responses :
                        /\ reqs'[k].ended
                        /\ reqs[k].url = url
                        /\ IdOf(k) = IdOf(h)
                        /\ HeldAfter(k)} = {first}
      ]_vars

\* C5 witness: a duplicate of a held id was just rejected
C5_Witness ==
    /\ last.op = "end"
    /\ reqs[last.h].outcome = "DuplicateArrival"
    /\ IdOf(last.h).v \in ArrivedKeys(reqs[last.h].url)
    /\ Held(checkinStore[reqs[last.h].url][IdOf(last.h).v])

\* C6: a check-in to a url that is no key of config.expected is answered 404
\* and changes no state; the keys of checkinStore stay within the configured
\* group names, and the configured names never change.
C6_UnknownGroup ==
    /\ [](DOMAIN checkinStore \subseteq DOMAIN config.expected)
    /\ [][/\ config' = config
          /\ \A h \in Responses :
                (/\ EndStep(h)
                 /\ reqs[h].method = "POST"
                 /\ reqs[h].url \notin DOMAIN config.expected)
                => /\ res'[h].statusCode = 404
                   /\ res'[h].finished
                   /\ res'[h].endCalls = 1
                   /\ res'[h].written = <<>>
                   /\ checkinStore' = checkinStore
                   /\ \A k \in Responses \ {h} : res'[k] = res[k]
         ]_vars

\* C6 witness: an unknown group was just refused while a response is held
C6_Witness ==
    /\ last.op = "end"
    /\ reqs[last.h].url \notin DOMAIN config.expected
    /\ res[last.h].statusCode = 404
    /\ \E k \in Responses : Held(k) /\ k \in ArrivedHandles(reqs[k].url)

\* C7: after a full release arrived holds no entry of the completed round,
\* every expected id can check in again and be held (or complete the next
\* round), and a round releases only responses that checked in during it.
C7_RoundReuse ==
    [][/\ \A k \in Responses :
            ReleasedNow(k) =>
                /\ ArrivedKeysAfter(reqs[k].url) = {}
                /\ ~res[k].finished
                /\ GoCount(res[k]) = 0
                /\ (k \in ArrivedHandles(reqs[k].url) \/ EndStep(k))
       /\ \A h \in Responses :
            (/\ EndStep(h)
             /\ IsExpectedCheckin(h)
             /\ ArrivedKeys(reqs[h].url) = {}
             /\ \E k \in Responses :
                    reqs[k].url = reqs[h].url /\ GoCount(res[k]) > 0)
            => /\ res'[h].statusCode = 200
               /\ (HeldAfter(h) \/ ReleasedNow(h))
      ]_vars

\* C8: a request addressed to one group leaves every other group's arrived
\* map and responses unchanged, and a group's held responses are completed
\* only by a check-in addressed to that group.
C8_CrossGroupIndependence ==
    [][/\ \A h \in Responses :
            EndStep(h) =>
                /\ \A u \in (DOMAIN checkinStore \cup DOMAIN checkinStore')
                                \ {reqs[h].url} :
                        /\ u \in DOMAIN checkinStore
                        /\ u \in DOMAIN checkinStore'
                        /\ checkinStore'[u] = checkinStore[u]
                /\ \A k \in Responses :
                        reqs[k].url # reqs[h].url => res'[k] = res[k]
       /\ \A k \in Responses :
            (Held(k) /\ CompletedNow(k)) =>
                \E h \in Responses : EndStep(h) /\ reqs[h].url = reqs[k].url
      ]_vars

\* C8 witness: a check-in just completed one group's round while another
\* group holds a response with the same id
C8_Witness ==
    /\ last.op = "end"
    /\ GoCount(res[last.h]) = 1
    /\ \E k \in Responses :
          /\ reqs[k].url # reqs[last.h].url
          /\ Held(k)
          /\ k \in ArrivedHandles(reqs[k].url)
          /\ IdOf(k) = IdOf(last.h)

\* C9: no response has end() called on it more than once, and none is
\* written to ('HOLD') or released after it has been ended.
C9_EndAtMostOnce ==
    \A h \in Responses :
        /\ res[h].endCalls <= 1
        /\ ~res[h].lateWrite
        /\ \A i \in 1..Len(res[h].written) :
              res[h].written[i] = GoPayload => i = Len(res[h].written)

\* C9 witness: a keep-alive tick ran after one response was released and one
\* was rejected, and pinged a response that is still held
C9_Witness ==
    /\ last.op = "tick"
    /\ \E h \in Responses : res[h].finished /\ res[h].endCalls = 1
    /\ \E k \in Responses : Held(k) /\ HoldCount(res[k]) = 1

ValidationFailures == {"UnknownGroup", "UnrecognizedParticipant", "DuplicateArrival"}

\* the HTTP response as a client of the protocol receives it
HttpResult(r) == <<r.statusCode, r.written>>

\* two answered requests that failed validation in different ways
DifferentFailures(h, k) ==
    /\ reqs[h].outcome \in ValidationFailures
    /\ reqs[k].outcome \in ValidationFailures
    /\ reqs[h].outcome # reqs[k].outcome

\* C10 as stated: the three validation failures are told apart by what the
\* client gets to see of the request, with the client of this repository.
C10_DistinguishableByClient ==
    \A h, k \in Responses :
        DifferentFailures(h, k) =>
            \A tool \in ClientTools :
                ClientResult(tool, res[h]) # ClientResult(tool, res[k])

\* C10 amended: the three validation failures are told apart by the HTTP
\* response (status code and body together), UnknownGroup from the other two
\* by the status code alone; UnrecognizedParticipant and DuplicateArrival
\* share the status code and differ in the body only.
C10_DistinguishableByResponse ==
    \A h, k \in Responses :
        DifferentFailures(h, k) =>
            /\ HttpResult(res[h]) # HttpResult(res[k])
            /\ (reqs[h].outcome = "UnknownGroup"
                    => res[h].statusCode # res[k].statusCode)
            /\ ({reqs[h].outcome, reqs[k].outcome} =
                    {"UnrecognizedParticipant", "DuplicateArrival"}
                    => /\ res[h].statusCode = res[k].statusCode
                       /\ res[h].written # res[k].written)

\* C10 witness: an unrecognised-id rejection and a duplicate rejection of
\* the same id have both been answered
C10_Witness ==
    \E h, k \in Responses :
        /\ reqs[h].outcome = "UnrecognizedParticipant"
        /\ reqs[k].outcome = "DuplicateArrival"
        /\ IdOf(h) = IdOf(k)
        /\ res[h].finished
        /\ res[k].finished

\* one turn of the event loop: a callback that is due runs
Turn == \E h \in 1..MaxRequests : OnData(h) \/ OnEnd(h)

\* the requests the configured participants make with the shipped client:
\* a POST to the barrier's path whose body is one id field, the id one of
\* the barrier's expected ids
CheckinShapes ==
    {shape \in RequestShapes :
        /\ shape.method = "POST"
        /\ shape.url \in DOMAIN config.expected
        /\ Len(shape.chunks) = 1
        /\ ParsedField(shape.chunks[1], "id").t = "string"
        /\ ParsedField(shape.chunks[1], "id").v \in ExpectedSet(shape.url)}

NextFair ==
    \/ \E shape \in CheckinShapes : Connection(shape)
    \/ Turn
    \/ KeepAlive
    \/ \E h \in 1..MaxRequests : Disconnect(h)

\* The server among its configured participants. The event loop does
\* not stop while a callback is due: a body chunk that has arrived is
\* delivered, a request whose body is complete gets its 'end'.
SpecFair == Init /\ [][NextFair]_vars /\ WF_vars(Turn)

\* the id the complete body of request k will carry
FullIdOf(k) ==
    LET body == reqs[k].reqBody \o
                (IF reqs[k].pending = <<>> THEN <<>>
                 ELSE IF Len(reqs[k].pending) = 1 THEN reqs[k].pending[1]
                 ELSE reqs[k].pending[1] \o reqs[k].pending[2])
    IN ParsedField(body, "id")

\* response h is held in its group and a check-in of every expected id that
\* is still missing has reached the server
RoundArriving(h) ==
    /\ h \in Responses
    /\ Held(h)
    /\ h \in ArrivedHandles(reqs[h].url)
    /\ \A i \in Missing(reqs[h].url) :
          \E k \in InFlight :
              /\ reqs[k].method = "POST"
              /\ reqs[k].url = reqs[h].url
              /\ FullIdOf(k) = JsString(i)

\* response h has received the release payload and is complete
Released(h) == h \in Responses /\ GoCount(res[h]) = 1 /\ res[h].finished

\* C11: once a check-in of every expected id of a group is being processed,
\* every response held in that round is eventually released: no state holds
\* a response of a group whose expected ids have all arrived, a step leaves
\* a held response of an arriving round either still in that position or
\* released, and the response does not stay in that position forever.
C11_HeldEventuallyReleased ==
    /\ [](\A u \in DOMAIN checkinStore :
              ArrivedKeys(u) # {} => Missing(u) # {})
    /\ [][\A h \in Responses :
              RoundArriving(h) => (RoundArriving(h))' \/ (Released(h))']_vars
    /\ \A h \in 1..MaxRequests : []<>(~RoundArriving(h) \/ Released(h))

\* C11 witness: a held response was just released by the last arrival
C11_Witness ==
    /\ last.op = "end"
    /\ \E h \in Responses :
          /\ h # last.h
          /\ reqs[h].url = reqs[last.h].url
          /\ GoCount(res[h]) = 1
          /\ GoCount(res[last.h]) = 1

\* C12: in every state the ids with an entry in a group's arrived map are
\* expected ids of that group, so the map never has more entries than the
\* group has expected ids.
C12_ArrivedWithinExpected ==
    \A url \in DOMAIN checkinStore :
        /\ url \in DOMAIN config.expected
        /\ ArrivedKeys(url) \subseteq ExpectedSet(url)
        /\ Cardinality(ArrivedKeys(url)) <= Len(config.expected[url])

\* C12 witness: a group holds an arrival while a check-in to it with an id
\* it does not expect has been answered
C12_Witness ==
    \E h \in Responses :
        /\ reqs[h].outcome = "UnrecognizedParticipant"
        /\ ArrivedKeys(reqs[h].url) # {}

\* request k is, or will be once its body is complete, a check-in to the
\* group of url with an expected id
ExpectedCheckinTo(k, url) ==
    /\ reqs[k].method = "POST"
    /\ reqs[k].url = url
    /\ FullIdOf(k).t = "string"
    /\ FullIdOf(k).v \in ExpectedSet(url)

\* C13: of two requests to one group that check in with expected ids, in any
\* interleaving of their events: with the same id, the one whose 'end' runs
\* while the other holds the id's entry is a DuplicateArrival, and the one
\* whose 'end' runs while the id has no entry is accepted; with different
\* ids, each is accepted when its id has no entry, and the later one
\* evaluates completeness over both entries (both are released together, or
\* both are in arrived afterwards).
C13_ConcurrentCheckins ==
    [][\A h \in Responses : \A k \in Responses \ {h} :
          (/\ EndStep(h)
           /\ IsExpectedCheckin(h)
           /\ ExpectedCheckinTo(k, reqs[h].url))
          => LET url == reqs[h].url
                 id == IdOf(h).v
             IN /\ (id \in ArrivedKeys(url)
                       => /\ reqs'[h].outcome = "DuplicateArrival"
                          /\ checkinStore' = checkinStore)
                /\ (id \notin ArrivedKeys(url)
                       => /\ reqs'[h].outcome = "Accepted"
                          /\ res'[h].statusCode = 200)
                /\ (/\ FullIdOf(k).v # id
                    /\ k \in ArrivedHandles(url)
                    /\ id \notin ArrivedKeys(url))
                       => \/ /\ ReleasedNow(h)
                             /\ ReleasedNow(k)
                             /\ ArrivedKeysAfter(url) = {}
                          \/ /\ ArrivedKeysAfter(url) = ArrivedKeys(url) \cup {id}
                             /\ checkinStore'[url][FullIdOf(k).v] = k
                             /\ checkinStore'[url][id] = h
      ]_vars

\* the responses stored in some group's arrived map
Stored ==
    {h \in Responses :
        \E url \in DOMAIN checkinStore :
            \E id \in DOMAIN checkinStore[url] : checkinStore[url][id] = h}

\* C14: release and reset are one step for every other check-in of the
\* group: no state stores a response that has been released; the step that
\* releases a round empties the group's arrived map and leaves the response
\* of every request still in flight untouched and unstored; and a check-in
\* accepted while arrived is empty is the only entry afterwards (or completes
\* on its own) and touches no response released before.
C14_ReleaseResetIndivisible ==
    /\ [](\A h \in Stored : GoCount(res[h]) = 0 /\ ~res[h].finished)
    /\ [][\A h \in Responses :
              (EndStep(h) /\ ReleasedNow(h))
              => LET url == reqs[h].url
                 IN /\ ArrivedKeysAfter(url) = {}
                    /\ \A k \in Responses \ {h} :
                          /\ ReleasedNow(k) <=> k \in ArrivedHandles(url)
                          /\ k \in InFlight
                                => /\ res'[k] = res[k]
                                   /\ ~ReleasedNow(k)
                                   /\ k \notin ArrivedHandles(url)
      ]_vars
    /\ [][\A h \in Responses :
              (/\ EndStep(h)
               /\ reqs'[h].outcome = "Accepted"
               /\ ArrivedKeys(reqs[h].url) = {})
              => /\ ArrivedKeysAfter(reqs[h].url) \subseteq {IdOf(h).v}
                 /\ \A k \in Responses \ {h} : res'[k] = res[k]
      ]_vars

\* C14 witness: a round was just released while another check-in to the
\* same group was in flight
C14_Witness ==
    /\ last.op = "end"
    /\ GoCount(res[last.h]) = 1
    /\ ArrivedKeys(reqs[last.h].url) = {}
    /\ \E k \in InFlight :
          /\ k < last.h
          /\ ExpectedCheckinTo(k, reqs[last.h].url)
          /\ res[k] = NewResponse

\* C15: a response whose connection has gone is no longer in any arrived
\* map, and a check-in with an id whose only entry belonged to such a
\* response is not answered as a duplicate.
C15_DeadHandleRemoved ==
    /\ [](\A h \in Stored : res[h].connected)
    /\ [][\A h \in Responses :
              (/\ EndStep(h)
               /\ IsExpectedCheckin(h)
               /\ IdOf(h).v \in ArrivedKeys(reqs[h].url)
               /\ ~res[checkinStore[reqs[h].url][IdOf(h).v]].connected)
              => reqs'[h].outcome = "Accepted"
      ]_vars

\* C16: when a round completes while the connection of one of its held
\* responses is gone, end('GO') is still called once on every response of
\* the round, the dead one included, the group's arrived map is emptied, and
\* the completing request is answered 200, not with an error.
C16_ReleaseIsolated ==
    [][\A h \in Responses :
          (/\ EndStep(h)
           /\ reqs'[h].outcome = "Accepted"
           /\ Missing(reqs[h].url) \ {IdOf(h).v} = {}
           /\ \E k \in ArrivedHandles(reqs[h].url) : ~res[k].connected)
          => /\ \A k \in ArrivedHandles(reqs[h].url) \cup {h} :
                   /\ GoCount(res'[k]) = 1
                   /\ res'[k].finished
                   /\ res'[k].endCalls = 1
                   /\ res'[k].statusCode = 200
             /\ ArrivedKeysAfter(reqs[h].url) = {}
             /\ reqs'[h].outcome = "Accepted"
      ]_vars

\* C16 witness: the last arrival just released a round that held a response
\* whose connection was gone, and both got the release call
C16_Witness ==
    /\ last.op = "end"
    /\ res[last.h].connected
    /\ GoCount(res[last.h]) = 1
    /\ \E k \in Responses \ {last.h} :
          /\ reqs[k].url = reqs[last.h].url
          /\ ~res[k].connected
          /\ res[k].endCalls = 1
          /\ GoCount(res[k]) = 1

\* this step is a keep-alive tick
TickStep == ticks' = ticks + 1

\* C17: a keep-alive tick changes no arrived map, no configuration and no
\* response's completion (status, end calls, release payload), and when the
\* connection of one stored response is gone, every stored response still
\* gets the write of that tick.
C17_TickLeavesBarrierState ==
    [][TickStep
          => /\ checkinStore' = checkinStore
             /\ config' = config
             /\ reqs' = reqs
             /\ \A h \in Responses :
                   /\ res'[h].finished = res[h].finished
                   /\ res'[h].endCalls = res[h].endCalls
                   /\ res'[h].statusCode = res[h].statusCode
                   /\ GoCount(res'[h]) = GoCount(res[h])
             /\ ((\E k \in Stored : ~res[k].connected)
                    => \A h \in Stored : HoldCount(res'[h]) = HoldCount(res[h]) + 1)
      ]_vars

\* C17 witness: a tick just wrote to a connected stored response while
\* another stored response had lost its connection
C17_Witness ==
    /\ last.op = "tick"
    /\ \E h \in Stored : \E k \in Stored :
          /\ ~res[k].connected
          /\ HoldCount(res[k]) = 1
          /\ res[h].connected
          /\ HoldCount(res[h]) = 1
          /\ ~res[h].finished

\* C18: a keep-alive tick appends one 'HOLD' to exactly the responses that
\* are in some group's arrived map at that moment, all of them held and not
\* released, and to no other response; 'HOLD' is not the release payload,
\* and the tick adds no entry to an arrived map and releases no response.
C18_TickPingsExactlyStored ==
    /\ HoldPayload # GoPayload
    /\ [][TickStep
             => /\ \A h \in Responses :
                      IF h \in Stored
                      THEN /\ Held(h)
                           /\ res'[h].written = Append(res[h].written, HoldPayload)
                           /\ HoldCount(res'[h]) = HoldCount(res[h]) + 1
                      ELSE res'[h] = res[h]
                /\ \A h \in Responses :
                      /\ GoCount(res'[h]) = GoCount(res[h])
                      /\ ~CompletedNow(h)
                /\ \A url \in DOMAIN config.expected :
                      ArrivedKeysAfter(url) = ArrivedKeys(url)
       ]_vars

\* C18 witness: a tick just pinged a stored response and left alone a
\* response that is not stored and one whose request is still in flight
C18_Witness ==
    /\ last.op = "tick"
    /\ \E h \in Stored : res[h].written = <<HoldPayload>>
    /\ \E k \in Responses \ Stored : res[k].written # <<>> /\ HoldCount(res[k]) = 0

\* the responses stored in some group's arrived map after this step
StoredAfter ==
    {h \in Responses :
        \E url \in DOMAIN checkinStore' :
            \E id \in DOMAIN checkinStore'[url] : checkinStore'[url][id] = h}

\* response h carries exactly the error body msg, and is complete
EndedWith(h, status, body) ==
    /\ res'[h].statusCode = status
    /\ res'[h].written = body
    /\ res'[h].finished
    /\ res'[h].endCalls = 1

\* C19: the first failing check decides the answer, in the order method
\* (405), group (404), id expected (400 'Unrecognized id'), id arrived (400
\* 'Duplicate id'); a rejected request's response is completed in the same
\* step with that error, is not stored in an arrived map, and no state shows
\* a rejected response with a 'HOLD' or a 'GO'.
C19_ValidationOrder ==
    /\ [][\A h \in Responses :
              EndStep(h)
              => LET rq == reqs[h]
                     known == rq.url \in DOMAIN config.expected
                 IN /\ rq.method # "POST" => EndedWith(h, 405, <<>>)
                    /\ (rq.method = "POST" /\ ~known) => EndedWith(h, 404, <<>>)
                    /\ (IsCheckin(h) /\ ~IsExpectedCheckin(h))
                          => EndedWith(h, 400, <<UnrecognizedMessage(IdOf(h))>>)
                    /\ (/\ IsExpectedCheckin(h)
                        /\ IdOf(h).v \in ArrivedKeys(rq.url))
                          => EndedWith(h, 400, <<DuplicateMessage(IdOf(h))>>)
                    /\ res'[h].statusCode # 200
                          => /\ res'[h].finished
                             /\ h \notin StoredAfter
                             /\ StoredAfter = Stored
                             /\ \A k \in Responses \ {h} : res'[k] = res[k]
       ]_vars
    /\ [](\A h \in Responses :
              reqs[h].outcome \in ValidationFailures \cup {"MethodNotAllowed"}
              => /\ res[h].finished
                 /\ res[h].endCalls = 1
                 /\ res[h].statusCode \in {400, 404, 405}
                 /\ HoldCount(res[h]) = 0
                 /\ GoCount(res[h]) = 0
                 /\ h \notin Stored)

\* C19 witness: a request that fails the method check and the group check
\* was just answered 405, and a tick has passed over a rejected response
C19_Witness ==
    /\ \E h \in Responses :
          /\ reqs[h].method = "GET"
          /\ reqs[h].url \notin DOMAIN config.expected
          /\ reqs[h].outcome = "MethodNotAllowed"
          /\ res[h].statusCode = 405
    /\ ticks > 0

\* C20: the delay the keep-alive timer is started with is the value of
\* keepAliveIntervalMs in the configuration: the user's value when the user
\* configuration has the key, 60000 otherwise.
C20_TickerInterval ==
    /\ DefaultConfig.keepAliveIntervalMs = 60000
    /\ config.keepAliveIntervalMs \in
           {DefaultConfig.keepAliveIntervalMs} \cup
           {u.keepAliveIntervalMs :
               u \in {c \in UserConfigs : "keepAliveIntervalMs" \in DOMAIN c}}
    /\ KeepAliveDelay(config) = config.keepAliveIntervalMs

====
